---- MODULE Spec2Model ----
(***************************************************************************)
(* Model of tako's symbol extraction engine (main.go): the parsed          *)
(* document, the comment attacher (precedingComments), the top-level       *)
(* capture filter (QueryCaptures), the symbol catalog (QuerySymbols), the  *)
(* signature assembler (EverythingExceptBody), the verbatim symbol         *)
(* builder (NodeToSymbolWithComments) and the name matcher (SymbolName,    *)
(* FindSymbolsMatching).                                                   *)
(*                                                                         *)
(* Source text is a sequence of one-character strings.  A syntax tree is a *)
(* table of nodes in pre-order; node 1 is the root; every node records its *)
(* kind, the field name it has in its parent, whether it is named, its     *)
(* parent (0 = none) and its half-open byte range [StartByte, EndByte).    *)
(***************************************************************************)
EXTENDS Integers, Sequences, FiniteSets, TLC

\* ------------------------------------------------------------------------
\* Bounds of the model
\* ------------------------------------------------------------------------

\* largest number of top-level declarations / comments in a document
MaxItems == 3

\* largest number of newline bytes put between two top-level items
MaxGap == 2

\* largest number of top-level items in a source file on disk
MaxFileItems == 2

\* largest depth budget given to the tree renderer
MaxDepth == 6

\* ------------------------------------------------------------------------
\* Generic sequence helpers
\* ------------------------------------------------------------------------

Max(a, b) == IF a > b THEN a ELSE b

\* code[start:end] of Go: bytes start .. end-1 (0-based), i.e. start+1 .. end
Slice(code, start, end) == SubSeq(code, start + 1, end)

\* strings.Join(parts, sep)
RECURSIVE Join(_, _)
Join(parts, sep) ==
  IF parts = <<>> THEN <<>>
  ELSE IF Len(parts) = 1 THEN parts[1]
  ELSE parts[1] \o sep \o Join(Tail(parts), sep)

\* strings.HasPrefix / strings.HasSuffix
HasPrefix(s, p) == Len(p) <= Len(s) /\ SubSeq(s, 1, Len(p)) = p

HasSuffix(s, p) == Len(p) <= Len(s) /\ SubSeq(s, Len(s) - Len(p) + 1, Len(s)) = p

\* strings.Contains
Contains(s, p) == \E i \in 0..(Len(s) - Len(p)) : SubSeq(s, i + 1, i + Len(p)) = p

Repeat(s, n) ==
  IF n <= 0 THEN <<>> ELSE [i \in 1..(n * Len(s)) |-> s[((i - 1) % Len(s)) + 1]]

\* ------------------------------------------------------------------------
\* Syntax trees as produced by the tree-sitter grammars
\* ------------------------------------------------------------------------

\* a node of a declaration template: byte offsets relative to the template's
\* own text, parent 0 = the document root, k = k-th node of the template
N(kind, field, named, parent, s, e) ==
  [kind |-> kind, field |-> field, named |-> named, parent |-> parent,
   StartByte |-> s, EndByte |-> e]

\* "// doc"
LineComment ==
  [text |-> <<"/", "/", " ", "d", "o", "c">>, sep |-> 1,
   nodes |-> << N("comment", "", TRUE, 0, 0, 6) >>]

\* "/*c*/"
BlockComment ==
  [text |-> <<"/", "*", "c", "*", "/">>, sep |-> 0,
   nodes |-> << N("comment", "", TRUE, 0, 0, 5) >>]

\* "func F() {}"
FuncF ==
  [text |-> <<"f", "u", "n", "c", " ", "F", "(", ")", " ", "{", "}">>, sep |-> 0,
   nodes |-> << N("function_declaration", "", TRUE, 0, 0, 11),
                N("func", "", FALSE, 1, 0, 4),
                N("identifier", "name", TRUE, 1, 5, 6),
                N("parameter_list", "parameters", TRUE, 1, 6, 8),
                N("block", "body", TRUE, 1, 9, 11) >>]

\* "func F {}": a function declaration left without a parameter list
FuncBare ==
  [text |-> <<"f", "u", "n", "c", " ", "F", " ", "{", "}">>, sep |-> 0,
   nodes |-> << N("function_declaration", "", TRUE, 0, 0, 9),
                N("func", "", FALSE, 1, 0, 4),
                N("identifier", "name", TRUE, 1, 5, 6),
                N("block", "body", TRUE, 1, 7, 9) >>]

\* "func (r T) M() int {var y int}"
MethodM ==
  [text |-> <<"f", "u", "n", "c", " ", "(", "r", " ", "T", ")", " ", "M", "(", ")", " ",
              "i", "n", "t", " ", "{", "v", "a", "r", " ", "y", " ", "i", "n", "t", "}">>,
   sep |-> 0,
   nodes |-> << N("method_declaration", "", TRUE, 0, 0, 30),
                N("func", "", FALSE, 1, 0, 4),
                N("parameter_list", "receiver", TRUE, 1, 5, 10),
                N("field_identifier", "name", TRUE, 1, 11, 12),
                N("parameter_list", "parameters", TRUE, 1, 12, 14),
                N("type_identifier", "result", TRUE, 1, 15, 18),
                N("block", "body", TRUE, 1, 19, 30),
                N("{", "", FALSE, 7, 19, 20),
                N("var_declaration", "", TRUE, 7, 20, 29),
                N("var", "", FALSE, 9, 20, 23),
                N("var_spec", "", TRUE, 9, 24, 29),
                N("identifier", "name", TRUE, 11, 24, 25),
                N("type_identifier", "type", TRUE, 11, 26, 29),
                N("}", "", FALSE, 7, 29, 30) >>]

\* "var a, b int"
VarAB ==
  [text |-> <<"v", "a", "r", " ", "a", ",", " ", "b", " ", "i", "n", "t">>, sep |-> 1,
   nodes |-> << N("var_declaration", "", TRUE, 0, 0, 12),
                N("var", "", FALSE, 1, 0, 3),
                N("var_spec", "", TRUE, 1, 4, 12),
                N("identifier", "name", TRUE, 3, 4, 5),
                N(",", "", FALSE, 3, 5, 6),
                N("identifier", "name", TRUE, 3, 7, 8),
                N("type_identifier", "type", TRUE, 3, 9, 12) >>]

\* "var x<TAB>int"
VarTab ==
  [text |-> <<"v", "a", "r", " ", "x", "\t", "i", "n", "t">>, sep |-> 1,
   nodes |-> << N("var_declaration", "", TRUE, 0, 0, 9),
                N("var", "", FALSE, 1, 0, 3),
                N("var_spec", "", TRUE, 1, 4, 9),
                N("identifier", "name", TRUE, 3, 4, 5),
                N("type_identifier", "type", TRUE, 3, 6, 9) >>]

\* "type T int"
TypeT ==
  [text |-> <<"t", "y", "p", "e", " ", "T", " ", "i", "n", "t">>, sep |-> 1,
   nodes |-> << N("type_declaration", "", TRUE, 0, 0, 10),
                N("type", "", FALSE, 1, 0, 4),
                N("type_spec", "", TRUE, 1, 5, 10),
                N("type_identifier", "name", TRUE, 3, 5, 6),
                N("type_identifier", "type", TRUE, 3, 7, 10) >>]

\* "function f(){}" (javascript)
JsFunc ==
  [text |-> <<"f", "u", "n", "c", "t", "i", "o", "n", " ", "f", "(", ")", "{", "}">>,
   sep |-> 0,
   nodes |-> << N("function_declaration", "", TRUE, 0, 0, 14),
                N("function", "", FALSE, 1, 0, 8),
                N("identifier", "name", TRUE, 1, 9, 10),
                N("formal_parameters", "parameters", TRUE, 1, 10, 12),
                N("statement_block", "body", TRUE, 1, 12, 14) >>]

\* "var v" (javascript)
JsVar ==
  [text |-> <<"v", "a", "r", " ", "v">>, sep |-> 1,
   nodes |-> << N("variable_declaration", "", TRUE, 0, 0, 5),
                N("var", "", FALSE, 1, 0, 3),
                N("variable_declarator", "", TRUE, 1, 4, 5),
                N("identifier", "name", TRUE, 3, 4, 5) >>]

\* the top-level items a file of each language is made of
Palette(langName) ==
  IF langName = "go"
  THEN {LineComment, BlockComment, FuncF, MethodM, VarAB, VarTab, TypeT}
  ELSE {LineComment, BlockComment, JsFunc, JsVar}

LanguageNames == {"go", "javascript"}

\* the node kinds a grammar defines: a query pattern naming any other kind
\* does not compile against that grammar
RECURSIVE KindsOf(_)
KindsOf(nodes) ==
  IF nodes = <<>> THEN {} ELSE {Head(nodes).kind} \cup KindsOf(Tail(nodes))

Language(langName) ==
  {IF langName = "go" THEN "source_file" ELSE "program"}
    \cup UNION {KindsOf(t.nodes) : t \in Palette(langName)}

\* number of newline bytes between an item and the next one: line comments
\* and declarations ending in a word need at least one
GapAfter(item, gap) == Max(item.sep, gap)

\* place the nodes of one item at byte offset base, node index offset off
RECURSIVE Place(_, _, _)
Place(nodes, base, off) ==
  IF nodes = <<>> THEN <<>>
  ELSE LET n == Head(nodes) IN
       << [n EXCEPT !.parent = IF n.parent = 0 THEN 1 ELSE n.parent + off,
                    !.StartByte = n.StartByte + base,
                    !.EndByte = n.EndByte + base] >>
         \o Place(Tail(nodes), base, off)

\* the source bytes and the nodes below the root for a sequence of items
RECURSIVE Build(_, _, _, _)
Build(items, gap, src, nodes) ==
  IF items = <<>> THEN [src |-> src, nodes |-> nodes]
  ELSE LET it == Head(items)
           placed == Place(it.nodes, Len(src), 1 + Len(nodes))
           sepBytes == IF Len(items) = 1 THEN <<>>
                       ELSE Repeat(<<"\n">>, GapAfter(it, gap))
       IN Build(Tail(items), gap, src \o it.text \o sepBytes, nodes \o placed)

\* sitter.ParseCtx + the ParsedDocument built from it
NewParsedDocument(items, gap, langName) ==
  LET b == Build(items, gap, <<>>, <<>>)
      root == N(IF langName = "go" THEN "source_file" ELSE "program",
                "", TRUE, 0, 0, Len(b.src))
  IN [Root |-> 1, nodes |-> <<root>> \o b.nodes, SourceCode |-> b.src,
      LanguageName |-> langName]

ItemSeqs(langName) ==
  UNION {[1..n -> Palette(langName)] : n \in 0..MaxItems}

Documents ==
  UNION {{NewParsedDocument(items, gap, l) : items \in ItemSeqs(l), gap \in 0..MaxGap}
           : l \in LanguageNames}

\* documents with a function declaration that has no "parameters" child
RecoveredDocuments ==
  {NewParsedDocument(items, gap, "go") :
     items \in {<<FuncBare>>, <<LineComment, FuncBare>>, <<FuncF, FuncBare>>},
     gap \in 0..MaxGap}

\* ------------------------------------------------------------------------
\* Node accessors of the tree-sitter binding
\* ------------------------------------------------------------------------

NoNode == 0

Nodes(d) == 1..Len(d.nodes)

\* node.Parent(): NoNode (nil) for the root
Parent(d, n) == d.nodes[n].parent

\* the children of a node, in source order
Children(d, n) == SelectSeq([i \in 1..Len(d.nodes) |-> i], LAMBDA i : d.nodes[i].parent = n)

\* node.Content(sourceCode)
Content(d, n) == Slice(d.SourceCode, d.nodes[n].StartByte, d.nodes[n].EndByte)

\* the row/column of a byte offset, as the parser reports it
PointAt(code, byte) ==
  LET newlines == {i \in 1..byte : code[i] = "\n"}
      last == IF newlines = {} THEN 0
              ELSE CHOOSE i \in newlines : \A j \in newlines : j <= i
  IN [Row |-> Cardinality(newlines), Column |-> byte - last]

StartPoint(d, n) == PointAt(d.SourceCode, d.nodes[n].StartByte)

EndPoint(d, n) == PointAt(d.SourceCode, d.nodes[n].EndByte)

\* node.ChildByFieldName(name): the first child with that field, or nil
ChildByFieldName(d, n, name) ==
  LET cs == SelectSeq(Children(d, n), LAMBDA c : d.nodes[c].field = name)
  IN IF cs = <<>> THEN NoNode ELSE cs[1]

\* the nodes a tree cursor created on n walks with GoToFirstChild followed by
\* GoToNextSibling until it fails: the children of n, or n itself when it has
\* none (GoToFirstChild fails and the cursor stays on its own root, which has
\* no field name and no sibling)
CursorWalk(d, n) == IF Children(d, n) = <<>> THEN <<n>> ELSE Children(d, n)

\* cursor.CurrentFieldName() during that walk
CursorFieldName(d, n, c) == IF c = n THEN "" ELSE d.nodes[c].field

GetRange(d, n) ==
  [StartPoint |-> StartPoint(d, n), EndPoint |-> EndPoint(d, n),
   StartByte |-> d.nodes[n].StartByte, EndByte |-> d.nodes[n].EndByte]

\* ------------------------------------------------------------------------
\* Comment attacher
\* ------------------------------------------------------------------------

NilPoint == [Row |-> -1, Column |-> -1]

\* the sibling loop recording the start of every comment it meets, not only
\* of the first of a run
RECURSIVE SiblingLoopLastStart(_, _, _, _, _, _, _)
SiblingLoopLastStart(d, node, sibs, i, comments, startPoint, startByte) ==
  LET done == [comments |-> comments, startPoint |-> startPoint, startByte |-> startByte]
  IN IF i > Len(sibs) THEN done
     ELSE LET currNode == sibs[i] IN
          IF d.nodes[currNode].EndByte >= d.nodes[node].StartByte THEN done
          ELSE IF d.nodes[currNode].kind = "comment"
               THEN SiblingLoopLastStart(d, node, sibs, i + 1,
                                         Append(comments, Content(d, currNode)),
                                         StartPoint(d, currNode),
                                         d.nodes[currNode].StartByte)
               ELSE SiblingLoopLastStart(d, node, sibs, i + 1, <<>>, NilPoint, startByte)

\* the sibling loop of precedingComments, at sibling i of sibs
RECURSIVE SiblingLoop(_, _, _, _, _, _, _)
SiblingLoop(d, node, sibs, i, comments, startPoint, startByte) ==
  LET done == [comments |-> comments, startPoint |-> startPoint, startByte |-> startByte]
  IN IF i > Len(sibs) THEN done
     ELSE LET currNode == sibs[i] IN
          IF d.nodes[currNode].EndByte >= d.nodes[node].StartByte THEN done
          ELSE IF d.nodes[currNode].kind = "comment"
               THEN SiblingLoop(d, node, sibs, i + 1,
                                Append(comments, Content(d, currNode)),
                                IF startPoint = NilPoint THEN StartPoint(d, currNode)
                                                         ELSE startPoint,
                                IF startPoint = NilPoint THEN d.nodes[currNode].StartByte
                                                         ELSE startByte)
               ELSE SiblingLoop(d, node, sibs, i + 1, <<>>, NilPoint, startByte)

precedingComments(d, node) ==
  IF Parent(d, node) = NoNode
  THEN [text |-> <<>>, startPoint |-> NilPoint, startByte |-> 0]
  ELSE LET r == SiblingLoop(d, node, Children(d, Parent(d, node)), 1, <<>>, NilPoint, 0)
       IN [text |-> Join(r.comments, <<"\n">>), startPoint |-> r.startPoint,
           startByte |-> r.startByte]

\* ------------------------------------------------------------------------
\* Symbol builders
\* ------------------------------------------------------------------------

\* the range of a symbol with only its start byte moved to the comment
SymbolRangeByteOnly(d, node, pc) ==
  IF pc.text /= <<>>
  THEN [GetRange(d, node) EXCEPT !.StartByte = pc.startByte]
  ELSE GetRange(d, node)

\* the range of a symbol: the node's own, its start moved to the first
\* attached comment when there is comment text
SymbolRange(d, node, pc) ==
  IF pc.text /= <<>>
  THEN [GetRange(d, node) EXCEPT !.StartPoint = pc.startPoint, !.StartByte = pc.startByte]
  ELSE GetRange(d, node)

\* the comment text written to the builder before the declaration
DocPrefix(pc) == IF pc.text /= <<>> THEN pc.text \o <<"\n">> ELSE <<>>

NodeToSymbolWithComments(d, node) ==
  LET pc == precedingComments(d, node)
  IN [Summary |-> DocPrefix(pc) \o Content(d, node),
      Range |-> SymbolRange(d, node, pc),
      Node |-> node]

\* the child loop without the test for the "body" field
RECURSIVE ChildLoopWithBody(_, _, _, _, _, _)
ChildLoopWithBody(d, node, walk, i, code, startedWriting) ==
  IF i > Len(walk) THEN code
  ELSE LET currNode == walk[i]
           fieldName == CursorFieldName(d, node, currNode)
       IN ChildLoopWithBody(d, node, walk, i + 1,
                            code \o (IF startedWriting /\ fieldName /= "parameters"
                                     THEN <<" ">> ELSE <<>>)
                                 \o Content(d, currNode),
                            TRUE)

\* the child loop writing a space in front of every fragment but the first
RECURSIVE ChildLoopAlwaysSpace(_, _, _, _, _, _)
ChildLoopAlwaysSpace(d, node, walk, i, code, startedWriting) ==
  IF i > Len(walk) THEN code
  ELSE LET currNode == walk[i]
           fieldName == CursorFieldName(d, node, currNode)
       IN IF fieldName /= "body"
          THEN ChildLoopAlwaysSpace(d, node, walk, i + 1,
                                    code \o (IF startedWriting THEN <<" ">> ELSE <<>>)
                                         \o Content(d, currNode),
                                    TRUE)
          ELSE ChildLoopAlwaysSpace(d, node, walk, i + 1, code, startedWriting)

\* the child loop of EverythingExceptBody, at position i of the cursor walk
RECURSIVE ChildLoop(_, _, _, _, _, _)
ChildLoop(d, node, walk, i, code, startedWriting) ==
  IF i > Len(walk) THEN code
  ELSE LET currNode == walk[i]
           fieldName == CursorFieldName(d, node, currNode)
       IN IF fieldName /= "body"
          THEN ChildLoop(d, node, walk, i + 1,
                         code \o (IF startedWriting /\ fieldName /= "parameters"
                                  THEN <<" ">> ELSE <<>>)
                              \o Content(d, currNode),
                         TRUE)
          ELSE ChildLoop(d, node, walk, i + 1, code, startedWriting)

EverythingExceptBody(d, node) ==
  LET pc == precedingComments(d, node)
  IN [Summary |-> ChildLoop(d, node, CursorWalk(d, node), 1, DocPrefix(pc), FALSE),
      Range |-> SymbolRange(d, node, pc),
      Node |-> node]

\* ------------------------------------------------------------------------
\* Pattern query matcher
\* ------------------------------------------------------------------------

\* the node kind each built-in pattern names
MethodPattern == "method_declaration"

FunctionPattern == "function_declaration"

TypePattern == "type_spec"

VarPattern == "var_declaration"

Patterns == {MethodPattern, FunctionPattern, TypePattern, VarPattern}

\* sitter.NewQuery: compiling fails when the grammar has no such node kind
CompileFails(d, pattern) == pattern \notin Language(d.LanguageName)

\* the captures of all matches, in document order
Matches(d, pattern) ==
  SelectSeq([i \in 1..Len(d.nodes) |-> i], LAMBDA n : d.nodes[n].kind = pattern)

\* QueryCaptures without the parent test
QueryCapturesNoFilter(d, pattern) ==
  IF CompileFails(d, pattern)
  THEN [err |-> TRUE, passed |-> <<>>]
  ELSE [err |-> FALSE, passed |-> Matches(d, pattern)]

\* QueryCaptures: the error, and the captures handed to the callback
QueryCaptures(d, pattern) ==
  IF CompileFails(d, pattern)
  THEN [err |-> TRUE, passed |-> <<>>]
  ELSE [err |-> FALSE,
        passed |-> SelectSeq(Matches(d, pattern), LAMBDA n : Parent(d, n) = d.Root)]

\* the body shared by QueryFunctions, QueryMethods, QueryTypeDefinitions and
\* QueryVarDeclarations: the value of QueryCaptures is dropped, the symbols
\* collected by the callback are returned with a nil error
QueryKind(d, pattern) ==
  LET q == QueryCaptures(d, pattern)
  IN [symbols |-> [i \in 1..Len(q.passed) |-> EverythingExceptBody(d, q.passed[i])],
      err |-> FALSE]

QueryFunctions(d) == QueryKind(d, FunctionPattern)

QueryMethods(d) == QueryKind(d, MethodPattern)

QueryTypeDefinitions(d) == QueryKind(d, TypePattern)

QueryVarDeclarations(d) == QueryKind(d, VarPattern)

\* sort.Slice's less function
Less(a, b) == a.Range.StartByte < b.Range.StartByte

\* the orders sort.Slice may leave the symbols in: a permutation in which no
\* element is Less than an earlier one (sort.Slice is not stable)
SortSlice(symbols) ==
  LET n == Len(symbols)
      perms == {p \in [1..n -> 1..n] : \A i, j \in 1..n : i /= j => p[i] /= p[j]}
  IN {[i \in 1..n |-> symbols[p[i]]] :
        p \in {q \in perms : \A i, j \in 1..n :
                               i < j => ~Less(symbols[q[j]], symbols[q[i]])}}

\* the symbols appended by QuerySymbols before sorting
Appended(d) ==
  QueryMethods(d).symbols \o QueryFunctions(d).symbols
    \o QueryTypeDefinitions(d).symbols \o QueryVarDeclarations(d).symbols

\* the error QuerySymbols returns: that of the first kind query that has one
QuerySymbolsErr(d) ==
  QueryMethods(d).err \/ QueryFunctions(d).err
    \/ QueryTypeDefinitions(d).err \/ QueryVarDeclarations(d).err

\* the results QuerySymbols may return
QuerySymbols(d) ==
  IF QuerySymbolsErr(d)
  THEN {[symbols |-> <<>>, err |-> TRUE]}
  ELSE {[symbols |-> s, err |-> FALSE] : s \in SortSlice(Appended(d))}

\* ------------------------------------------------------------------------
\* Name matcher
\* ------------------------------------------------------------------------

\* strings.Split(code, " ")[0]: the bytes before the first space
RECURSIVE FirstSplit(_)
FirstSplit(code) ==
  IF code = <<>> \/ Head(code) = " " THEN <<>>
  ELSE <<Head(code)>> \o FirstSplit(Tail(code))

SymbolName(d, node) ==
  LET childNode == ChildByFieldName(d, node, "name")
  IN IF childNode /= NoNode THEN Content(d, childNode)
     ELSE IF d.LanguageName = "go"
               /\ d.nodes[node].kind \in {"var_declaration", "type_declaration"}
          THEN FirstSplit(Content(d, Children(d, node)[2]))
          ELSE <<>>

\* a regular expression: a literal, anchored (^lit$) or not
Regex(lit, anchored) == [lit |-> lit, anchored |-> anchored]

\* regex.MatchString(name)
MatchString(regex, name) ==
  IF regex.anchored THEN name = regex.lit ELSE Contains(name, regex.lit)

\* the loop of FindSymbolsMatching over the cursor walk of the root
RECURSIVE MatchLoop(_, _, _, _, _)
MatchLoop(d, regex, walk, i, matches) ==
  IF i > Len(walk) THEN matches
  ELSE LET currNode == walk[i]
           name == SymbolName(d, currNode)
       IN MatchLoop(d, regex, walk, i + 1,
                    IF name /= <<>> /\ MatchString(regex, name)
                    THEN Append(matches, NodeToSymbolWithComments(d, currNode))
                    ELSE matches)

\* FindSymbolsMatching walking every node below the root, not only its children
FindSymbolsMatchingDescend(d, regex) ==
  [symbols |-> MatchLoop(d, regex,
                         IF Len(d.nodes) = 1 THEN <<d.Root>>
                         ELSE [i \in 1..(Len(d.nodes) - 1) |-> i + 1],
                         1, <<>>),
   err |-> FALSE]

FindSymbolsMatching(d, regex) ==
  [symbols |-> MatchLoop(d, regex, CursorWalk(d, d.Root), 1, <<>>), err |-> FALSE]

\* ------------------------------------------------------------------------
\* The function catalog of the first version (src/main.go)
\* ------------------------------------------------------------------------

\* "%d" of a non-negative number
RECURSIVE Digits(_)
Digits(n) ==
  LET digit == <<"0", "1", "2", "3", "4", "5", "6", "7", "8", "9">>[(n % 10) + 1]
  IN IF n < 10 THEN <<digit>> ELSE Digits(n \div 10) \o <<digit>>

\* the captures of (function_declaration (identifier) @function.name), in
\* document order
FunctionNameCaptures(d) ==
  SelectSeq([i \in 1..Len(d.nodes) |-> i],
            LAMBDA n : /\ d.nodes[n].kind = "identifier"
                       /\ Parent(d, n) /= NoNode
                       /\ d.nodes[Parent(d, n)].kind = "function_declaration")

\* the ParsedFunction of one capture, with nothing recorded for a missing
\* parameter list
ParsedFunctionNoPlaceholder(d, cap) ==
  LET node == Parent(d, cap)
      paramList == ChildByFieldName(d, node, "parameters")
      returnType == ChildByFieldName(d, node, "result")
      pc == precedingComments(d, node)
  IN [Name |-> Content(d, cap),
      Params |-> IF paramList /= NoNode THEN Content(d, paramList) ELSE <<>>,
      ReturnType |-> IF returnType /= NoNode THEN Content(d, returnType) ELSE <<>>,
      Documentation |-> pc.text,
      StartPoint |-> IF pc.text /= <<>> THEN pc.startPoint ELSE StartPoint(d, node),
      Node |-> node]

\* the ParsedFunction built for one capture
ParsedFunction(d, cap) ==
  LET node == Parent(d, cap)
      paramList == ChildByFieldName(d, node, "parameters")
      returnType == ChildByFieldName(d, node, "result")
      pc == precedingComments(d, node)
  IN [Name |-> Content(d, cap),
      Params |-> IF paramList /= NoNode THEN Content(d, paramList) ELSE <<"(", ")">>,
      ReturnType |-> IF returnType /= NoNode THEN Content(d, returnType) ELSE <<>>,
      Documentation |-> pc.text,
      StartPoint |-> IF pc.text /= <<>> THEN pc.startPoint ELSE StartPoint(d, node),
      Node |-> node]

Functions(d) ==
  [i \in 1..Len(FunctionNameCaptures(d)) |-> ParsedFunction(d, FunctionNameCaptures(d)[i])]

\* ParsedFunction.String
FunctionString(d, f) ==
  (IF f.Documentation /= <<>> THEN f.Documentation \o <<"\n">> ELSE <<>>)
    \o f.Name \o f.Params \o <<" ">> \o f.ReturnType
    \o <<" ">> \o Digits(f.StartPoint.Row) \o <<":">> \o Digits(f.StartPoint.Column)
    \o <<"-">> \o Digits(EndPoint(d, f.Node).Row) \o <<":">>
    \o Digits(EndPoint(d, f.Node).Column)

\* Go evaluates the arguments of a call before the call is made: F applied
\* to the value of x
CallByValue(F(_), x) == CHOOSE r \in {F(v) : v \in {x}} : TRUE

\* ------------------------------------------------------------------------
\* Files on disk, paths and the extension-to-grammar table
\* ------------------------------------------------------------------------

\* a path is a string; the files on disk are a table of entries in the order
\* filepath.Walk reads them (pre-order, names of a directory ascending);
\* entry 1 is the directory "d"; a regular file records the items its text
\* consists of
NoEntry == 0

Dir(path, parent) ==
  [path |-> path, parent |-> parent, dir |-> TRUE, items |-> <<>>, gap |-> 0]

File(path, parent, items, gap) ==
  [path |-> path, parent |-> parent, dir |-> FALSE, items |-> items, gap |-> gap]

\* the file name extension of the grammar's source files
Suffix(langName) == IF langName = "go" THEN ".go" ELSE ".js"

\* a directory holding one source file with the given text next to a file
\* without extension, a text file, a sub-directory and an ignored directory
Disk(items, gap, langName) ==
  << Dir("d", NoEntry),
     File("d/Makefile", 1, <<>>, 0),
     File("d/a" \o Suffix(langName), 1, items, gap),
     File("d/notes.txt", 1, <<>>, 0),
     Dir("d/sub", 1),
     File("d/sub/g.go", 5, <<FuncF>>, 0),
     Dir("d/vendor", 1),
     File("d/vendor/v.go", 7, <<FuncF>>, 0) >>

\* "var v" and the newline that ends the declaration, which the Go grammar
\* makes an unnamed node of its own below the root
VarNL ==
  [text |-> <<"v", "a", "r", " ", "v", "\n">>, sep |-> 0,
   nodes |-> << N("var_declaration", "", TRUE, 0, 0, 5),
                N("var", "", FALSE, 1, 0, 3),
                N("var_spec", "", TRUE, 1, 4, 5),
                N("identifier", "name", TRUE, 3, 4, 5),
                N("\n", "", FALSE, 0, 5, 6) >>]

\* the top-level items the source files on disk are made of
FilePalette(langName) ==
  IF langName = "go" THEN {FuncF, MethodM, VarNL} ELSE {JsFunc, JsVar}

FileItemSeqs(langName) ==
  UNION {[1..n -> FilePalette(langName)] : n \in 0..MaxFileItems}

Disks ==
  UNION {{Disk(items, gap, l) : items \in FileItemSeqs(l), gap \in 0..MaxGap}
           : l \in LanguageNames}

\* os.Stat: the entry of a path, NoEntry when there is none
Stat(fs, path) ==
  IF \E i \in 1..Len(fs) : fs[i].path = path
  THEN CHOOSE i \in 1..Len(fs) : fs[i].path = path
  ELSE NoEntry

\* the entries of a directory, in name order
ReadDir(fs, i) == SelectSeq([k \in 1..Len(fs) |-> k], LAMBDA k : fs[k].parent = i)

\* filepath.Ext: the suffix beginning at the final dot of the final element
RECURSIVE ExtFrom(_, _)
ExtFrom(path, i) ==
  IF i < 1 \/ SubSeq(path, i, i) = "/" THEN ""
  ELSE IF SubSeq(path, i, i) = "." THEN SubSeq(path, i, Len(path))
  ELSE ExtFrom(path, i - 1)

Ext(path) == ExtFrom(path, Len(path))

\* the second result of filepath.Split: what follows the final separator
RECURSIVE SplitFrom(_, _)
SplitFrom(path, i) ==
  IF i < 1 \/ SubSeq(path, i, i) = "/" THEN SubSeq(path, i + 1, Len(path))
  ELSE SplitFrom(path, i - 1)

SplitLast(path) == SplitFrom(path, Len(path))

codeSuffixes ==
  <<"go", "rs", "js", "ts", "c", "h", "cpp", "cxx", "cc", "hpp", "hxx",
    "hh", "java", "php", "py", "rb", "cs", "scala", "proto">>

ignores ==
  <<"vendor", "node_modules", "third_party", "build", "dist", "out", "target",
    "bin", ".git">>

sliceContains(slice, item) == \E i \in 1..Len(slice) : slice[i] = item

\* the switch of GetLanguageFromExtension
ExtensionTable ==
  [e \in {"go", "rs", "js", "ts", "c", "h", "cpp", "cxx", "cc", "hpp", "hxx",
          "hh", "java", "php", "py", "rb", "cs", "scala", "proto"} |->
     CASE e = "go" -> "go"
       [] e = "rs" -> "rust"
       [] e = "js" -> "javascript"
       [] e = "ts" -> "typescript"
       [] e \in {"c", "h"} -> "c"
       [] e \in {"cpp", "cxx", "cc", "hpp", "hxx", "hh"} -> "cpp"
       [] e = "java" -> "java"
       [] e = "php" -> "php"
       [] e = "py" -> "python"
       [] e = "rb" -> "ruby"
       [] e = "cs" -> "csharp"
       [] e = "scala" -> "scala"
       [] e = "proto" -> "protobuf"]

\* lang is FALSE for the nil language; ext[0] of the empty string is an
\* index out of range: the goroutine panics
GetLanguageFromExtension(ext) ==
  IF Len(ext) = 0
  THEN [panic |-> TRUE, lang |-> FALSE, langName |-> ""]
  ELSE LET e == IF SubSeq(ext, 1, 1) = "." THEN SubSeq(ext, 2, Len(ext)) ELSE ext
       IN IF e \in DOMAIN ExtensionTable
          THEN [panic |-> FALSE, lang |-> TRUE, langName |-> ExtensionTable[e]]
          ELSE [panic |-> FALSE, lang |-> FALSE, langName |-> ""]

\* the document of no file
NoDocument == [Root |-> NoNode, nodes |-> <<>>, SourceCode |-> <<>>, LanguageName |-> ""]

Unsupported(ext) == "Unsupported file extension: " \o ext

\* ioutil.ReadFile fails on a directory and on a path that does not exist
ReadFileErr(fs, path) ==
  IF Stat(fs, path) = NoEntry THEN "no such file or directory"
  ELSE IF fs[Stat(fs, path)].dir THEN "is a directory"
  ELSE ""

ParseFile(fs, path) ==
  IF ReadFileErr(fs, path) /= ""
  THEN [panic |-> FALSE, err |-> ReadFileErr(fs, path), doc |-> NoDocument]
  ELSE LET l == GetLanguageFromExtension(Ext(path))
           f == fs[Stat(fs, path)]
       IN IF l.panic THEN [panic |-> TRUE, err |-> "", doc |-> NoDocument]
          ELSE IF ~l.lang
            THEN [panic |-> FALSE, err |-> Unsupported(Ext(path)), doc |-> NoDocument]
            ELSE [panic |-> FALSE, err |-> "",
                  doc |-> NewParsedDocument(f.items, f.gap, l.langName)]

\* ------------------------------------------------------------------------
\* The symbol search command: regexp.Compile, the file walker, its callback
\* ------------------------------------------------------------------------

\* the search patterns a user types: ^a$, F, the empty pattern, and two that
\* regexp.Compile rejects, ( and [a
SearchPatterns ==
  { <<"^", "a", "$">>, <<"F">>, <<>>, <<"(">>, <<"[", "a">> }

\* regexp.Compile for the patterns above: a group or a class that is not
\* closed is a syntax error; ^ and $ at the two ends anchor the literal
Compile(pattern) ==
  IF \/ (\E i \in 1..Len(pattern) : pattern[i] = "(")
          /\ ~(\E i \in 1..Len(pattern) : pattern[i] = ")")
     \/ (\E i \in 1..Len(pattern) : pattern[i] = "[")
          /\ ~(\E i \in 1..Len(pattern) : pattern[i] = "]")
  THEN [err |-> TRUE, regex |-> Regex(<<>>, FALSE)]
  ELSE IF Len(pattern) >= 2 /\ Head(pattern) = "^" /\ pattern[Len(pattern)] = "$"
    THEN [err |-> FALSE, regex |-> Regex(SubSeq(pattern, 2, Len(pattern) - 1), TRUE)]
    ELSE [err |-> FALSE, regex |-> Regex(pattern, FALSE)]

\* what a command has done so far: the functions entered per file, the
\* blocks written to standard output, and whether the process panicked
Nothing == [calls |-> <<>>, printed |-> <<>>, panicked |-> FALSE]

Entered(out, fn, path) ==
  [out EXCEPT !.calls = Append(@, [fn |-> fn, path |-> path])]

\* the walker callback of PrintSymbolsMatching
PrintFileSymbolsMatching(fs, path, regex, out) ==
  CallByValue(
    LAMBDA p :
      LET o1 == Entered(Entered(out, "callback", path), "ParseFile", path)
          o2 == Entered(o1, "FindSymbolsMatching", path)
      IN IF p.panic THEN [err |-> "", out |-> [o1 EXCEPT !.panicked = TRUE]]
         ELSE IF p.err /= "" THEN [err |-> p.err, out |-> o1]
         ELSE CallByValue(
                LAMBDA sym :
                  IF sym.err THEN [err |-> "FindSymbolsMatching", out |-> o2]
                  ELSE IF Len(sym.symbols) = 0 THEN [err |-> "", out |-> o2]
                  ELSE [err |-> "",
                        out |-> [o2 EXCEPT !.printed =
                                   Append(@, [path |-> path, symbols |-> sym.symbols])]],
                FindSymbolsMatching(p.doc, regex)),
    ParseFile(fs, path))

SkipDir == "skip this directory"

RECURSIVE CodeFileWalker(_, _, _, _)
RECURSIVE walk(_, _, _, _, _)
RECURSIVE walkEntries(_, _, _, _, _, _)

\* the function CodeFileWalker passes to filepath.Walk, for entry i of the
\* walk rooted at root
WalkFunc(fs, root, i, regex, out) ==
  LET subPath == fs[i].path
      suffix == Ext(subPath)
      fileSuffix == IF Len(suffix) > 0 /\ SubSeq(suffix, 1, 1) = "."
                    THEN SubSeq(suffix, 2, Len(suffix)) ELSE suffix
  IN IF i = root THEN [err |-> "", out |-> out]
     ELSE IF sliceContains(ignores, SplitLast(subPath))
       THEN [err |-> SkipDir, out |-> out]
     ELSE IF ~fs[i].dir /\ sliceContains(codeSuffixes, fileSuffix)
       THEN PrintFileSymbolsMatching(fs, subPath, regex, out)
     ELSE IF fs[i].dir
       THEN [err |-> "", out |-> CodeFileWalker(fs, subPath, regex, out).out]
     ELSE [err |-> "", out |-> out]

\* filepath.Walk's walk: the function is called for the entry, then for
\* the entries of a directory in name order
walk(fs, root, i, regex, out) ==
  CallByValue(
    LAMBDA r :
      IF ~fs[i].dir \/ r.err /= "" \/ r.out.panicked THEN r
      ELSE CallByValue(LAMBDA names : walkEntries(fs, root, names, 1, regex, r.out),
                       ReadDir(fs, i)),
    WalkFunc(fs, root, i, regex, out))

\* SkipDir from a directory skips that directory only; any other error,
\* and SkipDir from a file, ends the listing of the directory
walkEntries(fs, root, names, k, regex, out) ==
  IF k > Len(names) THEN [err |-> "", out |-> out]
  ELSE CallByValue(
         LAMBDA r :
           IF r.out.panicked THEN r
           ELSE IF r.err /= "" /\ (~fs[names[k]].dir \/ r.err /= SkipDir) THEN r
           ELSE walkEntries(fs, root, names, k + 1, regex, r.out),
         CallByValue(LAMBDA i : walk(fs, root, i, regex, out), names[k]))

\* filepath.Walk
Walk(fs, root, regex, out) ==
  CallByValue(
    LAMBDA r : IF r.err = SkipDir THEN [err |-> "", out |-> r.out] ELSE r,
    walk(fs, root, root, regex, out))

CodeFileWalker(fs, path, regex, out) ==
  IF Stat(fs, path) = NoEntry THEN [err |-> "no such file or directory", out |-> out]
  ELSE IF ~fs[Stat(fs, path)].dir THEN PrintFileSymbolsMatching(fs, path, regex, out)
  ELSE CallByValue(LAMBDA root : Walk(fs, root, regex, out), Stat(fs, path))

BadPattern == "Search pattern could not be parsed as a regular expression"

\* PrintSymbolsMatching walking the files although the pattern did not compile
PrintSymbolsMatchingWalkFirst(fs, path, pattern) ==
  CallByValue(
    LAMBDA c :
      CallByValue(
        LAMBDA w : IF c.err THEN [err |-> BadPattern, out |-> w.out] ELSE w,
        CodeFileWalker(fs, path, c.regex, Nothing)),
    Compile(pattern))

PrintSymbolsMatching(fs, path, pattern) ==
  CallByValue(
    LAMBDA c :
      IF c.err THEN [err |-> BadPattern, out |-> Nothing]
      ELSE CodeFileWalker(fs, path, c.regex, Nothing),
    Compile(pattern))

\* ------------------------------------------------------------------------
\* The tree renderer: terminal width, margin cells, labels, previews
\* ------------------------------------------------------------------------

\* a printed line is a sequence of bytes: an ASCII byte is the one-character
\* string of its character, a byte of a box-drawing character is the
\* two-character string of its hexadecimal value
Chars(s) == [i \in 1..Len(s) |-> SubSeq(s, i, i)]

\* unicode.IsSpace for the characters of node kinds and source text
IsSpaceChar(c) == c \in {" ", "\t", "\n", "\r"}

isOnlyWhitespace(s) == \A i \in 1..Len(s) : IsSpaceChar(SubSeq(s, i, i))

LINE_NONE == 0
LINE_VERTICAL == 1
LINE_CHILD == 2
LINE_LAST_CHILD == 3

tree_padding == 15

min(a, b) == IF a < b THEN a ELSE b

\* getTermWidth: w is the process state (ttyWidth, getSizeCalls, ...), t what
\* term.GetSize answers; the width is stored only when the query succeeds
getTermWidth(t, w) ==
  IF w.ttyWidth /= -1 THEN [width |-> w.ttyWidth, st |-> w]
  ELSE IF ~t.ok
    THEN [width |-> 80, st |-> [w EXCEPT !.getSizeCalls = @ + 1]]
    ELSE [width |-> t.width,
          st |-> [w EXCEPT !.getSizeCalls = @ + 1, !.ttyWidth = t.width]]

\* regexp \s+ replaced by one space: the first byte of every run of
\* whitespace becomes a space, the other bytes of the run are dropped
collapseWhitespace(s) ==
  LET kept == SelectSeq([i \in 1..Len(s) |-> i],
                        LAMBDA i : ~IsSpaceChar(s[i]) \/ i = 1 \/ ~IsSpaceChar(s[i - 1]))
  IN [j \in 1..Len(kept) |-> IF IsSpaceChar(s[kept[j]]) THEN " " ELSE s[kept[j]]]

\* the bytes of one margin cell: "  ", "│ ", "├ ", "╰ "
CellBytes(line) ==
  CASE line = LINE_NONE -> <<" ", " ">>
    [] line = LINE_VERTICAL -> <<"E2", "94", "82", " ">>
    [] line = LINE_CHILD -> <<"E2", "94", "9C", " ">>
    [] line = LINE_LAST_CHILD -> <<"E2", "95", "B0", " ">>
    [] OTHER -> <<>>

\* the margin with a branch drawn in every cell that is not blank
RECURSIVE TreeStructureAllBranches(_)
TreeStructureAllBranches(cells) ==
  IF cells = <<>> THEN <<>>
  ELSE CellBytes(IF Head(cells) = LINE_NONE THEN LINE_NONE ELSE LINE_CHILD)
         \o TreeStructureAllBranches(Tail(cells))

\* the loop building treeStructure from childLines
RECURSIVE TreeStructure(_)
TreeStructure(cells) ==
  IF cells = <<>> THEN <<>>
  ELSE CellBytes(Head(cells)) \o TreeStructure(Tail(cells))

\* nodeString: kind and field name of a named node, the quoted kind of an
\* unnamed one, nothing for an unnamed node whose kind is only whitespace
NodeString(d, node) ==
  IF d.nodes[node].named
  THEN Chars(d.nodes[node].kind) \o <<" ">> \o Chars(CursorFieldName(d, d.Root, node))
  ELSE IF ~isOnlyWhitespace(d.nodes[node].kind)
    THEN <<"\"">> \o Chars(d.nodes[node].kind) \o <<"\"">>
    ELSE <<>>

\* the preview appended without cutting it to the remaining width
FillRemainingUncut(str, nodeCode, width) ==
  IF width - Len(str) - tree_padding > 0
  THEN str \o Repeat(<<" ">>, tree_padding) \o nodeCode
  ELSE str

\* the preview put at one column for all lines: the padding shrinks as the
\* margin and the label grow
FillRemainingAligned(str, nodeCode, width) ==
  IF width - Len(str) - tree_padding > 0
  THEN str \o Repeat(<<" ">>, Max(1, 2 * tree_padding - Len(str)))
           \o SubSeq(nodeCode, 1, min(Len(nodeCode), width - Len(str) - tree_padding))
  ELSE str

\* the line printed for a node: str, and when width remains the padding and
\* the start of the collapsed node text
FillRemaining(str, nodeCode, width) ==
  LET remaining == width - Len(str) - tree_padding
  IN IF remaining > 0
     THEN str \o Repeat(<<" ">>, tree_padding)
              \o SubSeq(nodeCode, 1, min(Len(nodeCode), remaining))
     ELSE str

\* Go slices of int: heap is the sequence of backing arrays allocated so
\* far, a slice names one of them with its length and capacity
EmptySlice == [arr |-> 0, len |-> 0, cap |-> 0]

\* the elements of a slice
Elems(heap, s) == [i \in 1..s.len |-> heap[s.arr][i]]

\* the capacity append gives a full slice of int: 1, then doubled
GrowCap(cap) == IF cap = 0 THEN 1 ELSE 2 * cap

\* append(s, v): in place when capacity remains, which leaves the result
\* sharing the backing array of s; a new array otherwise
append(heap, s, v) ==
  IF s.len < s.cap
  THEN [heap |-> [heap EXCEPT ![s.arr][s.len + 1] = v],
        slice |-> [s EXCEPT !.len = @ + 1]]
  ELSE [heap |-> Append(heap, (IF s.len = 0 THEN <<>> ELSE SubSeq(heap[s.arr], 1, s.len))
                                \o <<v>> \o Repeat(<<0>>, GrowCap(s.cap) - s.len - 1)),
        slice |-> [arr |-> Len(heap) + 1, len |-> s.len + 1, cap |-> GrowCap(s.cap)]]

\* newChildLines[len-2] of a slice longer than one: the cell of the node
\* whose children are about to be printed turns from branch to vertical,
\* from last-branch to blank
AdjustLastLine(heap, s) ==
  IF s.len > 1
  THEN LET lastLine == s.len - 1
       IN IF heap[s.arr][lastLine] = 3
          THEN [heap EXCEPT ![s.arr][lastLine] = LINE_NONE]
          ELSE IF heap[s.arr][lastLine] = 2
            THEN [heap EXCEPT ![s.arr][lastLine] = LINE_VERTICAL]
            ELSE heap
  ELSE heap

\* lines 766-803: the process state after the node's line, if it has one,
\* is printed; w is the process state: the heap of backing arrays, the
\* lines printed, ttyWidth and the count of GetSize calls
PrintLine(d, t, node, depth, childLines, w) ==
  LET treeStructure == IF depth >= 1
                       THEN TreeStructure(Elems(w.heap, childLines))
                       ELSE <<>>
      nodeString == NodeString(d, node)
      nodeCode == collapseWhitespace(Content(d, node))
      str == treeStructure \o nodeString
      g == getTermWidth(t, w)
  IN IF nodeString /= <<>>
     THEN [g.st EXCEPT !.lines =
             Append(@, [node |-> node, depth |-> depth, str |-> str,
                        line |-> FillRemaining(str, nodeCode, g.width)])]
     ELSE w

RECURSIVE PrintParseTree(_, _, _, _, _, _, _)
RECURSIVE NextSiblingLoop(_, _, _, _, _, _, _, _, _)

\* the loop "for cursor.GoToNextSibling()": the cursor stands on the first
\* child kids[1] when it starts, so its body runs for kids[2], kids[3], ...
NextSiblingLoop(d, t, kids, k, children, depth, depthRemaining, newChildLines, w) ==
  IF k > Len(kids) THEN w
  ELSE CallByValue(
         LAMBDA w2 : NextSiblingLoop(d, t, kids, k + 1, children + 1, depth,
                                     depthRemaining, newChildLines, w2),
         CallByValue(
           LAMBDA a : PrintParseTree(d, t, a.node, a.depth, a.depthRemaining,
                                     a.childLines, a.w),
           [node |-> kids[k], depth |-> depth + 1,
            depthRemaining |-> depthRemaining - 1, childLines |-> newChildLines,
            w |-> [w EXCEPT !.heap[newChildLines.arr][newChildLines.len] =
                     IF children = Len(kids) - 2 THEN LINE_LAST_CHILD
                     ELSE LINE_CHILD]]))

PrintParseTree(d, t, node, depth, depthRemaining, childLines, w) ==
  IF depthRemaining = 0 THEN w
  ELSE CallByValue(
         LAMBDA w1 :
           IF Children(d, node) = <<>> THEN w1
           ELSE CallByValue(
                  LAMBDA a : NextSiblingLoop(d, t, a.kids, 2, 0, a.depth,
                                             a.depthRemaining, a.newChildLines, a.w),
                  LET ap == append(w1.heap, childLines, 1)
                  IN [kids |-> Children(d, node), depth |-> depth,
                      depthRemaining |-> depthRemaining,
                      newChildLines |-> ap.slice,
                      w |-> [w1 EXCEPT !.heap = AdjustLastLine(ap.heap, ap.slice)]]),
         PrintLine(d, t, node, depth, childLines, w))

\* the process state a command starts from
Fresh == [heap |-> <<>>, lines |-> <<>>, ttyWidth |-> -1, getSizeCalls |-> 0]

\* PrintTree handing PrintParseTree one level more than asked for
PrintTreeOneDeeper(disk, t, path, maxDepth, w) ==
  CallByValue(
    LAMBDA p :
      [panic |-> p.panic, err |-> p.err, doc |-> p.doc,
       st |-> IF p.panic \/ p.err /= "" THEN w
              ELSE PrintParseTree(p.doc, t, p.doc.Root, 0, maxDepth + 1, EmptySlice, w)],
    ParseFile(disk, path))

\* PrintTree: lines 835-849 read and parse the file as ParseFile does
PrintTree(disk, t, path, maxDepth, w) ==
  CallByValue(
    LAMBDA p :
      [panic |-> p.panic, err |-> p.err, doc |-> p.doc,
       st |-> IF p.panic \/ p.err /= "" THEN w
              ELSE PrintParseTree(p.doc, t, p.doc.Root, 0, maxDepth, EmptySlice, w)],
    ParseFile(disk, path))

\* ------------------------------------------------------------------------
\* State machine: one parsed document, one operation applied to it
\* ------------------------------------------------------------------------

VARIABLES
  doc,      \* the ParsedDocument
  op,       \* the operation that has run ("" before any)
  arg,      \* its argument: a node, a pattern or a regular expression
  symbols,  \* the []*Symbol it returned, or the one Symbol as a 1-sequence
  err,      \* TRUE when it returned a non-nil error
  comment,  \* the value returned by precedingComments
  name,     \* the value returned by SymbolName
  passed,   \* the captures QueryCaptures handed to its callback
  fs,       \* the files on disk
  term,     \* what term.GetSize(0) answers in this process
  ttyWidth, \* the package variable ttyWidth
  getSizeCalls, \* how many times term.GetSize was called
  lines,    \* the lines PrintParseTree has printed
  calls,    \* the functions a command entered, per file, in order
  printed,  \* the blocks the symbol search wrote to standard output
  message,  \* the text of the error returned ("" for nil)
  panicked  \* TRUE when the process died of a runtime panic

\* the state of the command line program around the engine
env == <<fs, term, ttyWidth, getSizeCalls, lines, calls, printed, message, panicked>>

vars == <<doc, op, arg, symbols, err, comment, name, passed, env>>

\* no command has run: nothing queried, printed or entered yet
EnvInit ==
  /\ ttyWidth = -1
  /\ getSizeCalls = 0
  /\ lines = <<>>
  /\ calls = <<>>
  /\ printed = <<>>
  /\ message = ""
  /\ panicked = FALSE

NoComment == [text |-> <<>>, startPoint |-> NilPoint, startByte |-> 0]

\* the search patterns tried: ^a$, F and the empty pattern
Regexes == {Regex(<<"a">>, TRUE), Regex(<<"F">>, FALSE), Regex(<<>>, FALSE)}

\* the nodes the per-node operations are applied to: the nodes the name
\* matcher walks and every node one of the built-in patterns matches
Targets(d) ==
  {CursorWalk(d, d.Root)[i] : i \in 1..Len(CursorWalk(d, d.Root))}
    \cup {n \in Nodes(d) : d.nodes[n].kind \in Patterns}

\* the nodes a symbol is built for: comments have no name and match no
\* built-in pattern
Declarations(d) == {n \in Targets(d) : d.nodes[n].kind /= "comment"}

Init ==
  /\ doc \in Documents \cup RecoveredDocuments
  /\ op = ""
  /\ arg = NoNode
  /\ symbols = <<>>
  /\ err = FALSE
  /\ comment = NoComment
  /\ name = <<>>
  /\ passed = <<>>
  /\ fs = <<>>
  /\ term = [ok |-> FALSE, width |-> 0]
  /\ EnvInit

CallPrecedingComments ==
  /\ op = ""
  /\ \E n \in Declarations(doc) :
       /\ arg' = n
       /\ comment' = precedingComments(doc, n)
  /\ op' = "precedingComments"
  /\ UNCHANGED <<doc, symbols, err, name, passed, env>>

CallNodeToSymbolWithComments ==
  /\ op = ""
  /\ \E n \in Declarations(doc) :
       /\ arg' = n
       /\ symbols' = <<NodeToSymbolWithComments(doc, n)>>
  /\ op' = "NodeToSymbolWithComments"
  /\ UNCHANGED <<doc, err, comment, name, passed, env>>

CallEverythingExceptBody ==
  /\ op = ""
  /\ \E n \in Declarations(doc) :
       /\ arg' = n
       /\ symbols' = <<EverythingExceptBody(doc, n)>>
  /\ op' = "EverythingExceptBody"
  /\ UNCHANGED <<doc, err, comment, name, passed, env>>

CallSymbolName ==
  /\ op = ""
  /\ \E n \in Targets(doc) :
       /\ arg' = n
       /\ name' = SymbolName(doc, n)
  /\ op' = "SymbolName"
  /\ UNCHANGED <<doc, symbols, err, comment, passed, env>>

CallQueryCaptures ==
  /\ op = ""
  /\ \E pattern \in Patterns :
       /\ arg' = pattern
       /\ err' = QueryCaptures(doc, pattern).err
       /\ passed' = QueryCaptures(doc, pattern).passed
  /\ op' = "QueryCaptures"
  /\ UNCHANGED <<doc, symbols, comment, name, env>>

CallQuerySymbols ==
  /\ op = ""
  /\ \E r \in QuerySymbols(doc) :
       /\ symbols' = r.symbols
       /\ err' = r.err
  /\ op' = "QuerySymbols"
  /\ UNCHANGED <<doc, arg, comment, name, passed, env>>

CallFindSymbolsMatching ==
  /\ op = ""
  /\ \E regex \in Regexes :
       /\ arg' = regex
       /\ symbols' = FindSymbolsMatching(doc, regex).symbols
       /\ err' = FindSymbolsMatching(doc, regex).err
  /\ op' = "FindSymbolsMatching"
  /\ UNCHANGED <<doc, comment, name, passed, env>>

\* the first version's catalog, which parses every file as Go
CallFunctions ==
  /\ op = ""
  /\ doc.LanguageName = "go"
  /\ symbols' = Functions(doc)
  /\ op' = "Functions"
  /\ UNCHANGED <<doc, arg, err, comment, name, passed, env>>

Next ==
  \/ CallFunctions
  \/ CallPrecedingComments
  \/ CallNodeToSymbolWithComments
  \/ CallEverythingExceptBody
  \/ CallSymbolName
  \/ CallQueryCaptures
  \/ CallQuerySymbols
  \/ CallFindSymbolsMatching

Spec == Init /\ [][Next]_vars

\* ------------------------------------------------------------------------
\* State machine of the command line program: one command per process
\* ------------------------------------------------------------------------

\* term.GetSize fails when standard input is not a terminal
Terminals == {[ok |-> FALSE, width |-> 0], [ok |-> TRUE, width |-> 40]}

\* the paths given on the command line: every entry and a path of no entry
Paths(disk) == {disk[i].path : i \in 1..Len(disk)} \cup {"d/none"}

MainInit ==
  /\ fs \in Disks
  /\ term \in Terminals
  /\ doc = NoDocument
  /\ op = ""
  /\ arg = NoNode
  /\ symbols = <<>>
  /\ err = FALSE
  /\ comment = NoComment
  /\ name = <<>>
  /\ passed = <<>>
  /\ EnvInit

\* tako symbol <path> <pattern>
CallPrintSymbolsMatching ==
  /\ op = ""
  /\ \E path \in Paths(fs), pattern \in SearchPatterns :
       \E r \in {PrintSymbolsMatching(fs, path, pattern)} :
          /\ arg' = [path |-> path, pattern |-> pattern]
          /\ err' = (r.err /= "")
          /\ message' = r.err
          /\ calls' = r.out.calls
          /\ printed' = r.out.printed
          /\ panicked' = r.out.panicked
  /\ op' = "PrintSymbolsMatching"
  /\ UNCHANGED <<doc, symbols, comment, name, passed, fs, term, ttyWidth,
                 getSizeCalls, lines>>

CallParseFile ==
  /\ op = ""
  /\ \E path \in Paths(fs) :
       \E r \in {ParseFile(fs, path)} :
          /\ arg' = [path |-> path]
          /\ doc' = r.doc
          /\ err' = (r.err /= "")
          /\ message' = r.err
          /\ panicked' = r.panic
  /\ op' = "ParseFile"
  /\ UNCHANGED <<symbols, comment, name, passed, fs, term, ttyWidth,
                 getSizeCalls, lines, calls, printed>>

\* tako tree <file> --max-depth <maxDepth>
CallPrintTree ==
  /\ op = ""
  /\ \E path \in Paths(fs), maxDepth \in 0..MaxDepth :
       \E r \in {PrintTree(fs, term, path, maxDepth, Fresh)} :
          /\ arg' = [path |-> path, maxDepth |-> maxDepth]
          /\ doc' = r.doc
          /\ err' = (r.err /= "")
          /\ message' = r.err
          /\ panicked' = r.panic
          /\ lines' = r.st.lines
          /\ ttyWidth' = r.st.ttyWidth
          /\ getSizeCalls' = r.st.getSizeCalls
  /\ op' = "PrintTree"
  /\ UNCHANGED <<symbols, comment, name, passed, fs, term, calls, printed>>

MainNext ==
  \/ CallPrintSymbolsMatching
  \/ CallParseFile
  \/ CallPrintTree

MainSpec == MainInit /\ [][MainNext]_vars

\* ------------------------------------------------------------------------
\* Helpers of the properties
\* ------------------------------------------------------------------------

\* the siblings of a node that come before it in its parent's child order
EarlierSiblings(d, node) ==
  IF Parent(d, node) = NoNode THEN <<>>
  ELSE SelectSeq(Children(d, Parent(d, node)), LAMBDA c : c < node)

\* the comment siblings directly in front of a node: no sibling of another
\* kind lies between any of them and the node
AdjacentRun(d, node) ==
  SelectSeq(EarlierSiblings(d, node),
            LAMBDA c : \A x \in c..(node - 1) :
                         Parent(d, x) = Parent(d, node) => d.nodes[x].kind = "comment")

TextsOf(d, ns) == [i \in 1..Len(ns) |-> Content(d, ns[i])]

\* the elements of a sequence at the positions in keep, in order
Pick(s, keep) == SelectSeq([i \in 1..Len(s) |-> i], LAMBDA i : i \in keep)

PickTexts(d, ns, keep) == [i \in 1..Len(Pick(ns, keep)) |-> Content(d, ns[Pick(ns, keep)[i]])]

\* the bytes SourceCode[Range.StartByte : Range.EndByte] of a symbol
RangeSlice(d, sym) == Slice(d.SourceCode, sym.Range.StartByte, sym.Range.EndByte)

\* ------------------------------------------------------------------------
\* C1..C10
\* ------------------------------------------------------------------------

\* C1: the symbols returned by QuerySymbols are strictly ascending by
\* Range.StartByte, so no two of them share a start byte.
C1_StrictlyAscending ==
  (op = "QuerySymbols" /\ ~err) =>
    \A i \in 1..(Len(symbols) - 1) :
      symbols[i].Range.StartByte < symbols[i + 1].Range.StartByte

\* C2: QueryCaptures hands a capture to its callback only if the captured
\* node's parent is the document root, and so every symbol of QuerySymbols
\* is a direct child of the root; nested declarations are never returned.
C2_TopLevelOnly ==
  /\ op = "QueryCaptures" =>
       \A i \in 1..Len(passed) : Parent(doc, passed[i]) = doc.Root
  /\ op = "QuerySymbols" =>
       \A i \in 1..Len(symbols) : Parent(doc, symbols[i].Node) = doc.Root

\* C2 witness: the var_declaration pattern was run on a document that has a
\* var_declaration at top level (handed over) and one nested in a body.
C2_Witness ==
  /\ op = "QueryCaptures" /\ arg = VarPattern /\ passed /= <<>>
  /\ \E n \in Nodes(doc) :
       doc.nodes[n].kind = VarPattern /\ Parent(doc, n) /= doc.Root

\* C3: a comment that is separated from the target by a non-comment sibling
\* is not part of the text precedingComments returns: the text is made only
\* of comments of the run directly in front of the target.
C3_SeparatedCommentNotAttached ==
  op = "precedingComments" =>
    \E keep \in SUBSET (1..Len(AdjacentRun(doc, arg))) :
      comment.text = Join(PickTexts(doc, AdjacentRun(doc, arg), keep), <<"\n">>)

\* C4: when a run of comments stands directly in front of the target,
\* precedingComments returns the text of every comment of the run in source
\* order, and the start point and start byte of the first of them, whatever
\* the number of bytes between the last comment and the target.
C4_AdjacentRunAttached ==
  (op = "precedingComments" /\ AdjacentRun(doc, arg) /= <<>>) =>
    /\ comment.text = Join(TextsOf(doc, AdjacentRun(doc, arg)), <<"\n">>)
    /\ comment.startByte = doc.nodes[AdjacentRun(doc, arg)[1]].StartByte
    /\ comment.startPoint = StartPoint(doc, AdjacentRun(doc, arg)[1])

\* the comment text attached to a node
AttachedText(d, n) == precedingComments(d, n).text

\* s without its first k elements
Drop(s, k) == SubSeq(s, k + 1, Len(s))

\* the sibling that follows c in its parent's child order (NoNode if none)
NextSibling(d, c) ==
  LET later == SelectSeq(Children(d, Parent(d, c)), LAMBDA x : x > c)
  IN IF later = <<>> THEN NoNode ELSE later[1]

\* from byte offset from up to the node, the node's parent holds nothing but
\* comments, each followed by exactly one newline byte and then by the next
\* comment or the node
SingleNewlineLayout(d, node, from) ==
  \A c \in Nodes(d) :
    (Parent(d, c) = Parent(d, node) /\ c < node /\ d.nodes[c].StartByte >= from) =>
      /\ d.nodes[c].kind = "comment"
      /\ d.nodes[NextSibling(d, c)].StartByte = d.nodes[c].EndByte + 1
      /\ d.SourceCode[d.nodes[c].EndByte + 1] = "\n"

NonBodyChildren(d, n) == SelectSeq(Children(d, n), LAMBDA c : d.nodes[c].field /= "body")

\* text is the fragments in order, with nothing or one space between two
RECURSIVE FragmentsMatch(_, _)
FragmentsMatch(text, frags) ==
  IF frags = <<>> THEN text = <<>>
  ELSE /\ HasPrefix(text, frags[1])
       /\ LET rest == Drop(text, Len(frags[1])) IN
          \/ FragmentsMatch(rest, Tail(frags))
          \/ /\ Tail(frags) /= <<>>
             /\ rest /= <<>>
             /\ rest[1] = " "
             /\ FragmentsMatch(Tail(rest), Tail(frags))

\* "// doc" NEWLINE "func F() {}"
ExampleSource == LineComment.text \o <<"\n">> \o FuncF.text

\* "// doc" NEWLINE "func F()"
ExampleSummary == LineComment.text \o <<"\n">> \o SubSeq(FuncF.text, 1, 8)

Emitted(d, n) ==
  SelectSeq(CursorWalk(d, n), LAMBDA c : CursorFieldName(d, n, c) /= "body")

\* the fragments from position i on, one space between two of them except
\* after a "parameters" fragment
RECURSIVE SpacedExceptAfter(_, _, _, _)
SpacedExceptAfter(d, n, frags, i) ==
  IF i > Len(frags) THEN <<>>
  ELSE Content(d, frags[i])
         \o (IF i = Len(frags) \/ CursorFieldName(d, n, frags[i]) = "parameters"
             THEN <<>> ELSE <<" ">>)
         \o SpacedExceptAfter(d, n, frags, i + 1)

\* the fragments from position i on, one space between two of them except
\* before a "parameters" fragment
RECURSIVE SpacedExceptBefore(_, _, _, _)
SpacedExceptBefore(d, n, frags, i) ==
  IF i > Len(frags) THEN <<>>
  ELSE Content(d, frags[i])
         \o (IF i = Len(frags) \/ CursorFieldName(d, n, frags[i + 1]) = "parameters"
             THEN <<>> ELSE <<" ">>)
         \o SpacedExceptBefore(d, n, frags, i + 1)

\* C7: in the Summary of EverythingExceptBody one space separates two
\* consecutive fragments, except that none follows a "parameters" fragment.
C7_NoSpaceAfterParameters ==
  op = "EverythingExceptBody" =>
    symbols[1].Summary
      = DocPrefix(precedingComments(doc, arg))
          \o SpacedExceptAfter(doc, arg, Emitted(doc, arg), 1)

\* C7 (amended): in the Summary of EverythingExceptBody one space separates
\* two consecutive fragments, except that none precedes a "parameters"
\* fragment (name and parameter list stay contiguous; a space follows the
\* parameter list).
C7_NoSpaceBeforeParameters ==
  op = "EverythingExceptBody" =>
    symbols[1].Summary
      = DocPrefix(precedingComments(doc, arg))
          \o SpacedExceptBefore(doc, arg, Emitted(doc, arg), 1)

\* C7 witness: the signature of a method whose parameter list follows its
\* name and is followed by a result type was assembled.
C7_Witness ==
  /\ op = "EverythingExceptBody"
  /\ ChildByFieldName(doc, arg, "parameters") /= NoNode
  /\ ChildByFieldName(doc, arg, "result") /= NoNode
  /\ ChildByFieldName(doc, arg, "name") /= NoNode

\* C8: if one of the built-in patterns fails to compile, QuerySymbols
\* returns the error and no symbols.
C8_CompileErrorPropagates ==
  (op = "QuerySymbols" /\ \E p \in Patterns : CompileFails(doc, p)) =>
    (err /\ symbols = <<>>)

\* C9: every symbol returned by FindSymbolsMatching is a direct child of the
\* document root, also for a root without children and also when the name
\* of the root or of a nested node matches.
C9_MatchesAreRootChildren ==
  op = "FindSymbolsMatching" =>
    \A i \in 1..Len(symbols) : Parent(doc, symbols[i].Node) = doc.Root

\* C9 witness: a search returned symbols from a document in which a nested
\* node has a name that matches the pattern too.
C9_Witness ==
  /\ op = "FindSymbolsMatching"
  /\ symbols /= <<>>
  /\ \E n \in Nodes(doc) :
       /\ n /= doc.Root
       /\ Parent(doc, n) /= doc.Root
       /\ SymbolName(doc, n) /= <<>>
       /\ MatchString(arg, SymbolName(doc, n))

IsSpace(c) == c \in {" ", "\t", "\n", "\r"}

\* strings.Fields: the maximal runs of non-whitespace bytes
RECURSIVE Fields(_, _, _)
Fields(s, cur, acc) ==
  IF s = <<>> THEN (IF cur = <<>> THEN acc ELSE Append(acc, cur))
  ELSE IF IsSpace(Head(s))
       THEN Fields(Tail(s), <<>>, IF cur = <<>> THEN acc ELSE Append(acc, cur))
       ELSE Fields(Tail(s), Append(cur, Head(s)), acc)

SecondToken(text) ==
  IF Len(Fields(text, <<>>, <<>>)) >= 2 THEN Fields(text, <<>>, <<>>)[2] ELSE <<>>

\* C10: in a Go document, for a top-level var_declaration or
\* type_declaration without a "name" field SymbolName is the second
\* whitespace-delimited token of the node's text; a node with a "name" field
\* yields that field's text.
C10_SecondToken ==
  op = "SymbolName" =>
    /\ ChildByFieldName(doc, arg, "name") /= NoNode =>
         name = Content(doc, ChildByFieldName(doc, arg, "name"))
    /\ (/\ doc.LanguageName = "go"
        /\ Parent(doc, arg) = doc.Root
        /\ doc.nodes[arg].kind \in {"var_declaration", "type_declaration"}
        /\ ChildByFieldName(doc, arg, "name") = NoNode) =>
         name = SecondToken(Content(doc, arg))
\* ------------------------------------------------------------------------
\* C11: when the search pattern is not a valid regular expression,
\* PrintSymbolsMatching returns an error before any file is visited: the
\* walker callback, ParseFile and FindSymbolsMatching are not entered for
\* any file and nothing is printed.
\* ------------------------------------------------------------------------
C11_BadPatternVisitsNothing ==
  (op = "PrintSymbolsMatching" /\ Compile(arg.pattern).err)
    => /\ err
       /\ message = BadPattern
       /\ calls = <<>>
       /\ printed = <<>>
       /\ ~panicked

\* a malformed pattern given with the directory, whose files a well-formed
\* pattern would have reached
C11_Witness ==
  /\ op = "PrintSymbolsMatching"
  /\ Compile(arg.pattern).err
  /\ arg.path = "d"
  /\ PrintSymbolsMatching(fs, "d", <<>>).out.printed /= <<>>
  /\ calls = <<>>

\* ------------------------------------------------------------------------
\* Helpers of the tree renderer properties
\* ------------------------------------------------------------------------

\* the tree command read, parsed and rendered a file
Rendered == op = "PrintTree" /\ ~err /\ ~panicked

\* distance of a node from the root
RECURSIVE Depth(_, _)
Depth(d, n) == IF n = d.Root THEN 0 ELSE 1 + Depth(d, Parent(d, n))

\* the nodes the printed lines are for, in print order
LineNodes == [i \in 1..Len(lines) |-> lines[i].node]

\* ------------------------------------------------------------------------
\* C12: for every tree, rendering with maxDepth = 0 emits zero lines, and
\* rendering with maxDepth = 1 emits exactly one line, the root's, however
\* many children and descendants the root has.
\* ------------------------------------------------------------------------
C12_DepthZeroAndOne ==
  Rendered =>
    /\ arg.maxDepth = 0 => lines = <<>>
    /\ arg.maxDepth = 1 =>
         /\ Len(lines) = 1
         /\ lines[1].node = doc.Root
         /\ HasPrefix(lines[1].line, NodeString(doc, doc.Root))

\* maxDepth 1 on a root with several children, one of them with children
C12_Witness ==
  /\ Rendered
  /\ arg.maxDepth = 1
  /\ Len(Children(doc, doc.Root)) >= 2
  /\ \E n \in Nodes(doc) : Depth(doc, n) = 3
  /\ Len(lines) = 1

\* a node that gets a label: named, or unnamed with a kind that is not
\* only whitespace
Labelled(d, n) == NodeString(d, n) /= <<>>

\* the labelled nodes within the depth budget, in pre-order (the order of
\* the node table)
WithinBudget(d, maxDepth) ==
  SelectSeq([i \in 1..Len(d.nodes) |-> i],
            LAMBDA n : Depth(d, n) < maxDepth /\ Labelled(d, n))

\* ------------------------------------------------------------------------
\* C13: the renderer prints the whole tree within the depth budget: for
\* every node at depth d < maxDepth whose label is non-empty exactly one
\* line is emitted, in pre-order, the first child of every parent included;
\* an unlabelled whitespace node emits no line.
\* ------------------------------------------------------------------------
C13_WholeTreePrinted ==
  Rendered => LineNodes = WithinBudget(doc, arg.maxDepth)

\* the ancestor of a node at a given depth (the node itself at its own)
RECURSIVE AncestorAt(_, _, _)
AncestorAt(d, n, k) == IF Depth(d, n) <= k THEN n ELSE AncestorAt(d, Parent(d, n), k)

\* a node that is not the last child of its parent
HasLaterSibling(d, n) ==
  \E m \in Nodes(d) : m > n /\ Parent(d, m) = Parent(d, n)

\* the margin the claim describes for a node at depth >= 1, cell by cell
MarginCell(d, n, i) ==
  IF i = Depth(d, n) - 1
  THEN IF HasLaterSibling(d, n) THEN LINE_CHILD ELSE LINE_LAST_CHILD
  ELSE IF HasLaterSibling(d, AncestorAt(d, n, i + 1)) THEN LINE_VERTICAL ELSE LINE_NONE

RECURSIVE MarginFrom(_, _, _)
MarginFrom(d, n, i) ==
  IF i >= Depth(d, n) THEN <<>>
  ELSE CellBytes(MarginCell(d, n, i)) \o MarginFrom(d, n, i + 1)

\* ------------------------------------------------------------------------
\* C14: for every printed line of a node at depth d >= 1 the left margin has
\* exactly d cells; cell d-1 is branch if the node has a later sibling and
\* last-branch otherwise; for every i < d-1, cell i is vertical-continuation
\* if the node's ancestor at depth i+1 has a later sibling and blank
\* otherwise; this although the connector slice is changed in place and may
\* share its backing array with the caller's slice.
\* ------------------------------------------------------------------------
C14_MarginCells ==
  Rendered =>
    \A i \in 1..Len(lines) :
      /\ lines[i].depth = Depth(doc, lines[i].node)
      /\ lines[i].depth >= 1 =>
           /\ lines[i].str = MarginFrom(doc, lines[i].node, 0)
                               \o NodeString(doc, lines[i].node)
           /\ HasPrefix(lines[i].line, lines[i].str)

\* a line at depth 4, printed from the frame whose append wrote into the
\* caller's backing array (length 3, capacity 4), with a vertical cell left
\* by that frame and a blank cell before it
C14_Witness ==
  /\ Rendered
  /\ \E i \in 1..Len(lines) :
       /\ lines[i].depth = 4
       /\ MarginCell(doc, lines[i].node, 2) = LINE_VERTICAL
       /\ MarginCell(doc, lines[i].node, 1) = LINE_NONE
       /\ MarginCell(doc, lines[i].node, 3) = LINE_LAST_CHILD

\* the width getTermWidth reports: the terminal's, 80 when the query fails
TermWidth == IF term.ok THEN term.width ELSE 80

\* the whitespace-collapsed source text of the node of a printed line
LineText(l) == collapseWhitespace(Content(doc, l.node))

\* what is left for the preview on a printed line
Room(l) == TermWidth - Len(l.str) - 15

\* ------------------------------------------------------------------------
\* C15: for every printed line with margin+label length L (in bytes) and
\* terminal width W: if W - L - 15 > 0 the line is margin+label, 15 padding
\* spaces and the first min(len(text), W - L - 15) bytes of the
\* whitespace-collapsed node text, so its length never exceeds W; if
\* W - L - 15 <= 0 the line is exactly margin+label.
\* ------------------------------------------------------------------------
C15_PreviewFitsWidth ==
  Rendered =>
    \A i \in 1..Len(lines) :
      LET l == lines[i]
          cut == IF Len(LineText(l)) < Room(l) THEN Len(LineText(l)) ELSE Room(l)
      IN /\ l.str = SubSeq(l.line, 1, Len(l.str))
         /\ Room(l) > 0 =>
              /\ Len(l.line) = Len(l.str) + 15 + cut
              /\ \A k \in 1..15 : l.line[Len(l.str) + k] = " "
              /\ \A k \in 1..cut : l.line[Len(l.str) + 15 + k] = LineText(l)[k]
              /\ Len(l.line) <= TermWidth
         /\ Room(l) <= 0 => l.line = l.str

\* one rendering with a preview cut to the remaining width, a preview that
\* fits, a line with no width left and a line with exactly none left
C15_Witness ==
  /\ Rendered
  /\ \E i \in 1..Len(lines) : Room(lines[i]) > 0 /\ Len(LineText(lines[i])) > Room(lines[i])
  /\ \E i \in 1..Len(lines) : Room(lines[i]) > 0 /\ Len(LineText(lines[i])) < Room(lines[i])
  /\ \E i \in 1..Len(lines) : Room(lines[i]) < 0
  /\ \E i \in 1..Len(lines) : Room(lines[i]) = 0

\* the number of characters of a byte sequence: the second and third bytes
\* of a box-drawing character do not start a character
DisplayWidth(bytes) ==
  Len(SelectSeq(bytes, LAMBDA b : b \notin {"94", "82", "9C", "95", "B0"}))

\* a printed line that carries a content preview
HasPreview(l) == Len(l.line) > Len(l.str) + tree_padding

\* the column (in characters) at which the preview of a line begins
PreviewColumn(l) == DisplayWidth(l.str) + tree_padding

\* ------------------------------------------------------------------------
\* C16: on every printed line that carries a content preview, the preview
\* starts at one fixed column, the same for all lines, independent of the
\* length of the margin and of the label.
\* ------------------------------------------------------------------------
C16_PreviewAtFixedColumn ==
  Rendered =>
    \A i, j \in 1..Len(lines) :
      (HasPreview(lines[i]) /\ HasPreview(lines[j]))
        => PreviewColumn(lines[i]) = PreviewColumn(lines[j])

\* C16 as the code has it: the preview of a line starts exactly tree_padding
\* spaces after the end of that line's own margin and label, with the first
\* byte of the collapsed node text, so its column grows with the margin and
\* the label.
C16_PreviewAfterFixedPadding ==
  Rendered =>
    \A i \in 1..Len(lines) :
      LET l == lines[i]
      IN HasPreview(l) =>
           /\ SubSeq(l.line, 1, Len(l.str)) = l.str
           /\ SubSeq(l.line, Len(l.str) + 1, Len(l.str) + tree_padding)
                = Repeat(<<" ">>, tree_padding)
           /\ l.line[Len(l.str) + tree_padding + 1] = LineText(l)[1]
           /\ l.line[Len(l.str) + tree_padding + 1] /= " "

\* two previews of one rendering that begin at different columns
C16_Witness ==
  /\ Rendered
  /\ \E i, j \in 1..Len(lines) :
       /\ HasPreview(lines[i])
       /\ HasPreview(lines[j])
       /\ PreviewColumn(lines[i]) /= PreviewColumn(lines[j])

\* ------------------------------------------------------------------------
\* C17: during one rendering the terminal width is obtained from the
\* operating system at most once: after the first call of getTermWidth no
\* later call queries it again, whether the first query succeeded or failed.
\* ------------------------------------------------------------------------
C17_WidthQueriedOnce ==
  Rendered => getSizeCalls <= 1

\* a path whose extension, without its leading dot, has no entry in the
\* extension-to-grammar table; the empty extension is one of them
NoGrammar(path) ==
  LET ext == Ext(path)
      e == IF Len(ext) > 0 /\ SubSeq(ext, 1, 1) = "." THEN SubSeq(ext, 2, Len(ext)) ELSE ext
  IN e \notin DOMAIN ExtensionTable

\* ------------------------------------------------------------------------
\* C18: for every file path whose extension has no entry in the
\* extension-to-grammar table, a path with no extension at all included,
\* ParseFile and PrintTree return an "Unsupported file extension" error
\* without parsing and without crashing, and GetLanguageFromExtension
\* returns (nil, "").
\* ------------------------------------------------------------------------
C18_UnsupportedExtensionIsAnError ==
  (/\ op \in {"ParseFile", "PrintTree"}
   /\ ReadFileErr(fs, arg.path) = ""
   /\ NoGrammar(arg.path))
    => /\ ~panicked
       /\ err
       /\ message = Unsupported(Ext(arg.path))
       /\ doc = NoDocument
       /\ lines = <<>>
       /\ GetLanguageFromExtension(Ext(arg.path))
            = [panic |-> FALSE, lang |-> FALSE, langName |-> ""]

\* a function declaration node with no child of field name "parameters"
Bare(d, n) ==
  /\ d.nodes[n].kind = "function_declaration"
  /\ ChildByFieldName(d, n, "parameters") = NoNode

Placeholder == <<"(", ")">>

\* ------------------------------------------------------------------------
\* C19: a function declaration node that has no child with field name
\* "parameters" still yields a symbol, and that symbol's text contains the
\* empty parameter-list placeholder "()" in the position of the missing
\* parameter list (after the name), whichever builder made the symbol.
\* ------------------------------------------------------------------------
C19_PlaceholderForMissingParameters ==
  /\ op = "Functions" =>
       \A n \in Nodes(doc) :
         Bare(doc, n) =>
           \E i \in 1..Len(symbols) :
             /\ symbols[i].Node = n
             /\ Contains(FunctionString(doc, symbols[i]), symbols[i].Name \o Placeholder)
  /\ (op = "EverythingExceptBody" /\ Bare(doc, arg)) =>
       /\ Len(symbols) = 1
       /\ Contains(symbols[1].Summary, SymbolName(doc, arg) \o Placeholder)

\* C19 as the code has it: Functions (src/main.go) records the placeholder
\* "()" as Params, so the text of its symbol has "()" right after the name;
\* EverythingExceptBody also yields a symbol, whose Summary is made of the
\* children that exist and has no placeholder: it ends with the name.
C19_PlaceholderInFunctionsOnly ==
  /\ op = "Functions" =>
       \A n \in Nodes(doc) :
         Bare(doc, n) =>
           \E i \in 1..Len(symbols) :
             /\ symbols[i].Node = n
             /\ symbols[i].Params = Placeholder
             /\ Contains(FunctionString(doc, symbols[i]),
                         symbols[i].Name \o Placeholder \o <<" ">>)
             /\ \A j \in 1..Len(symbols) : symbols[j].Node = n => j = i
  /\ (op = "EverythingExceptBody" /\ Bare(doc, arg)) =>
       /\ Len(symbols) = 1
       /\ ~Contains(symbols[1].Summary, Placeholder)
       /\ HasSuffix(symbols[1].Summary, <<"f", "u", "n", "c", " ">> \o SymbolName(doc, arg))

\* Functions run on "func F() {}func F {}": one function with its parameter
\* list, one with the placeholder
C19_Witness ==
  /\ op = "Functions"
  /\ \E i, j \in 1..Len(symbols) :
       /\ Bare(doc, symbols[i].Node)
       /\ symbols[i].Params = Placeholder
       /\ ~Bare(doc, symbols[j].Node)
       /\ symbols[j].Params = Content(doc, ChildByFieldName(doc, symbols[j].Node, "parameters"))

\* ------------------------------------------------------------------------
\* C20: for every Symbol built by EverythingExceptBody or
\* NodeToSymbolWithComments, Range.EndByte and Range.EndPoint are the
\* declaration node's own end; Range.StartByte and Range.StartPoint are the
\* node's own start when the attached comment text is empty, and the start
\* byte and start point of the first comment of the attached run otherwise;
\* in both cases Range.StartByte <= the node's start byte <= Range.EndByte,
\* and the document and its node are left as they were.
\* ------------------------------------------------------------------------
C20_RangeAndFrame ==
  [][(op = "" /\ op' \in {"EverythingExceptBody", "NodeToSymbolWithComments"}) =>
       LET sym == symbols'[1]
           n == arg'
           text == AttachedText(doc, n)
       IN /\ doc' = doc
          /\ Len(symbols') = 1
          /\ sym.Range.EndByte = doc.nodes[n].EndByte
          /\ sym.Range.EndPoint = EndPoint(doc, n)
          /\ text = <<>> =>
               /\ sym.Range.StartByte = doc.nodes[n].StartByte
               /\ sym.Range.StartPoint = StartPoint(doc, n)
          /\ text /= <<>> =>
               \E i \in 1..Len(EarlierSiblings(doc, n)) :
                 LET c == EarlierSiblings(doc, n)[i]
                 IN /\ doc.nodes[c].kind = "comment"
                    /\ HasPrefix(text, Content(doc, c))
                    /\ sym.Range.StartByte = doc.nodes[c].StartByte
                    /\ sym.Range.StartPoint = StartPoint(doc, c)
          /\ sym.Range.StartByte <= doc.nodes[n].StartByte
          /\ doc.nodes[n].StartByte <= sym.Range.EndByte
    ]_vars

\* a symbol whose range was widened to a comment on an earlier line, built
\* for a declaration that does not begin its document
C20_Witness ==
  /\ op \in {"EverythingExceptBody", "NodeToSymbolWithComments"}
  /\ AttachedText(doc, arg) /= <<>>
  /\ symbols[1].Range.StartByte > 0
  /\ symbols[1].Range.StartByte < doc.nodes[arg].StartByte
  /\ symbols[1].Range.StartPoint.Row < StartPoint(doc, arg).Row
  /\ symbols[1].Range.EndByte = doc.nodes[arg].EndByte

\* the top-level declarations of a kind QuerySymbols looks for: the function,
\* method and var declarations, and the type_spec of a type_declaration
TopLevelOfKind(d, kind) ==
  {n \in Nodes(d) : d.nodes[n].kind = kind /\ Parent(d, n) = d.Root}

TopLevelTypeSpecs(d) ==
  {n \in Nodes(d) :
     /\ d.nodes[n].kind = "type_spec"
     /\ Parent(d, n) \in TopLevelOfKind(d, "type_declaration")}

\* C21: for a Go document, the result of QuerySymbols contains a Symbol for
\* every type definition declared at top level (a type_spec inside a
\* type_declaration that is a direct child of the root), just as it contains
\* one for every top-level function, method and var declaration.
C21_TypeDefinitionsReported ==
  (op = "QuerySymbols" /\ doc.LanguageName = "go" /\ ~err) =>
    /\ \A n \in TopLevelOfKind(doc, FunctionPattern)
              \cup TopLevelOfKind(doc, MethodPattern)
              \cup TopLevelOfKind(doc, VarPattern) :
         \E i \in 1..Len(symbols) : symbols[i].Node = n
    /\ \A n \in TopLevelTypeSpecs(doc) :
         \E i \in 1..Len(symbols) : symbols[i].Node \in {n, Parent(doc, n)}

\* the entries on the way from entry i up to, and without, the entry root;
\* the empty set when i does not lie under root
RECURSIVE PathBelow(_, _, _)
PathBelow(disk, root, i) ==
  IF i = NoEntry \/ i = root THEN {}
  ELSE IF disk[i].parent = root THEN {i}
  ELSE IF PathBelow(disk, root, disk[i].parent) = {} THEN {}
  ELSE {i} \cup PathBelow(disk, root, disk[i].parent)

\* the code files a walk of the directory root discovers: regular files with
\* a supported suffix under root, outside the directories of the ignore list
DiscoveredCodeFiles(disk, root) ==
  {i \in 1..Len(disk) :
     /\ ~disk[i].dir
     /\ PathBelow(disk, root, i) /= {}
     /\ \A k \in PathBelow(disk, root, i) :
          ~sliceContains(ignores, SplitLast(disk[k].path))
     /\ Len(Ext(disk[i].path)) > 1
     /\ sliceContains(codeSuffixes, SubSeq(Ext(disk[i].path), 2, Len(Ext(disk[i].path))))}

\* how often the walker's callback was entered for a path
CallbackCount(path) ==
  Cardinality({k \in 1..Len(calls) : calls[k] = [fn |-> "callback", path |-> path]})

\* the symbol search walked a directory: the pattern compiled and the path
\* names a directory
WalkedDirectory ==
  /\ op = "PrintSymbolsMatching"
  /\ message /= BadPattern
  /\ Stat(fs, arg.path) /= NoEntry
  /\ fs[Stat(fs, arg.path)].dir

\* C22: given a directory path, CodeFileWalker invokes its callback exactly
\* once per discovered code file: every regular file with a supported suffix
\* under the path, at any depth and outside ignored directories, is passed
\* to the callback one time and never twice.
C22_CallbackOncePerFile ==
  WalkedDirectory =>
    \A i \in DiscoveredCodeFiles(fs, Stat(fs, arg.path)) :
      CallbackCount(fs[i].path) = 1

\* the margin cells read back from the bytes of a printed line: a cell that
\* begins with a space is blank, the others are told apart by the last byte
\* of their box-drawing character
RECURSIVE MarginCells(_, _)
MarginCells(str, k) ==
  IF k = 0 \/ Len(str) < 2 THEN <<>>
  ELSE IF str[1] = " "
    THEN <<LINE_NONE>> \o MarginCells(SubSeq(str, 3, Len(str)), k - 1)
    ELSE IF Len(str) < 4 THEN <<>>
    ELSE << CASE str[3] = "82" -> LINE_VERTICAL
              [] str[3] = "9C" -> LINE_CHILD
              [] OTHER -> LINE_LAST_CHILD >>
           \o MarginCells(SubSeq(str, 5, Len(str)), k - 1)

\* the indices of the printed lines of the children of a node, in print order
ChildLines(p) ==
  SelectSeq([i \in 1..Len(lines) |-> i], LAMBDA i : Parent(doc, lines[i].node) = p)

\* the connector a printed line at depth >= 1 is drawn with: its last cell
Connector(i) == MarginCells(lines[i].str, lines[i].depth)[lines[i].depth]

\* a printed line of a proper descendant of the node of printed line i
BelowLine(j, i) ==
  /\ lines[j].depth > lines[i].depth
  /\ AncestorAt(doc, lines[j].node, lines[i].depth) = lines[i].node

\* C23: in the rendered figure, for every node that has at least one printed
\* child line, the last printed child line is drawn with the last-branch
\* connector and every earlier printed child line with the branch connector,
\* so no vertical continuation is drawn below a parent's last printed child;
\* this also when the parent's last child in the tree is a pure-whitespace
\* unnamed node that emits no line.
C23_LastPrintedChildClosesBranch ==
  Rendered =>
    \A p \in Nodes(doc) :
      LET c == ChildLines(p)
      IN \A k \in 1..Len(c) :
           /\ Connector(c[k]) = IF k = Len(c) THEN LINE_LAST_CHILD ELSE LINE_CHILD
           /\ k = Len(c) =>
                \A j \in 1..Len(lines) :
                  BelowLine(j, c[k]) =>
                    MarginCells(lines[j].str, lines[j].depth)[lines[c[k]].depth]
                      /= LINE_VERTICAL

====
